---- MODULE Spec2Model ----
(***************************************************************************)
(* Bitcoin price tracker: the poller of bitcoin_tracker.py (fetch with     *)
(* fallback, store, statistics, sleep, cooperative stop) and the read-only *)
(* dashboard of web_dashboard.py, sharing one SQLite table.                *)
(*                                                                         *)
(* Prices are whole currency units (integers); the average of the stored   *)
(* prices is kept exactly as the pair sum/count and compared by cross      *)
(* multiplication.  Time is counted in hours since an epoch; the stored    *)
(* CURRENT_TIMESTAMP text and the ISO cutoff text are compared as SQLite   *)
(* compares TEXT values.                                                   *)
(***************************************************************************)
EXTENDS Integers, Sequences, FiniteSets, TLC

\* ------------------------------------------------------------------ bounds
MaxIter == 2        \* ticks the poller may start
MaxRows == 4        \* rows of a table found at start-up (SpecStats)
FetchInterval == 1  \* run(fetch_interval), in hours

\* --------------------------------------------------------------- constants
CoinDesk == "CoinDesk"
CoinGecko == "CoinGecko"

\* The value of price_data before the first assignment (no source, tick 0).
NoData == [price |-> 0, source |-> "None", tick |-> 0]

\* ------------------------------------------------- responses of the sources
\* What requests.get / raise_for_status / response.json() can do.
\* OtherRequestException stands for the subclasses of RequestException that
\* are none of the three named ones (TooManyRedirects, ChunkedEncodingError).
RequestErrors == {"ConnectionError", "Timeout", "HTTPError", "OtherRequestException"}

\* CoinDesk's data['bpi']['USD']['rate']: a text, a JSON number, or absent.
PrimaryBodies ==
    { [shape |-> "text", rate |-> <<"$", "1", ",", "1", "0", "0">>, num |-> 0],
      [shape |-> "text", rate |-> <<"N", "/", "A">>, num |-> 0],
      [shape |-> "number", rate |-> <<>>, num |-> 1100],
      [shape |-> "missing", rate |-> <<>>, num |-> 0] }

\* CoinGecko's data['bitcoin']['usd']: a JSON number or absent.
BackupBodies ==
    { [shape |-> "number", rate |-> <<>>, num |-> 1050],
      [shape |-> "number", rate |-> <<>>, num |-> -5],
      [shape |-> "missing", rate |-> <<>>, num |-> 0] }

NoBody == [shape |-> "none", rate |-> <<>>, num |-> 0]

PrimaryResponses ==
    { [kind |-> e, body |-> NoBody] : e \in RequestErrors }
        \cup { [kind |-> "ok", body |-> b] : b \in PrimaryBodies }

BackupResponses ==
    { [kind |-> e, body |-> NoBody] : e \in {"Timeout", "OtherRequestException"} }
        \cup { [kind |-> "ok", body |-> b] : b \in BackupBodies }

\* ------------------------------------------------------- text to number
DigitChars == {"0", "1", "2", "3", "4", "5", "6", "7", "8", "9"}

DigitVal(c) ==
    CASE c = "0" -> 0 [] c = "1" -> 1 [] c = "2" -> 2 [] c = "3" -> 3
      [] c = "4" -> 4 [] c = "5" -> 5 [] c = "6" -> 6 [] c = "7" -> 7
      [] c = "8" -> 8 [] c = "9" -> 9

\* str.replace(c, ''): every occurrence of c removed.
RECURSIVE Remove(_, _)
Remove(s, c) ==
    IF s = <<>> THEN <<>>
    ELSE IF Head(s) = c THEN Remove(Tail(s), c)
    ELSE <<Head(s)>> \o Remove(Tail(s), c)

\* rate.replace(',', '').replace('$', '')
StripRate(rate) == Remove(Remove(rate, ","), "$")

RECURSIVE DigitsValue(_)
DigitsValue(s) ==
    IF s = <<>> THEN 0
    ELSE 10 * DigitsValue(SubSeq(s, 1, Len(s) - 1)) + DigitVal(s[Len(s)])

AllDigits(s) == Len(s) > 0 /\ \A i \in 1..Len(s) : s[i] \in DigitChars

\* float(text) on the texts above: an optionally signed run of digits
\* converts, anything else raises ValueError.
FloatParses(s) ==
    \/ AllDigits(s)
    \/ Len(s) > 1 /\ s[1] = "-" /\ AllDigits(Tail(s))

FloatOf(s) == IF s[1] = "-" THEN 0 - DigitsValue(Tail(s)) ELSE DigitsValue(s)

\* ----------------------------------------------------- one source attempt
\* The result of one try block of fetch_bitcoin_price:
\*   "return"   the call returns data
\*   "next"     the exception is caught and logged, the call goes on
\*   "APIError" the call raises APIError
\*   "escape"   an exception no except clause of the call names leaves it
Returned(p, src) == [kind |-> "return", price |-> p, source |-> src]
Outcome(k) == [kind |-> k, price |-> 0, source |-> "None"]

PrimaryAttemptGuess(resp) ==
    IF resp.kind = "ok" /\ resp.body.shape = "text" /\ FloatParses(StripRate(resp.body.rate))
    THEN Returned(FloatOf(StripRate(resp.body.rate)), CoinDesk)
    ELSE IF resp.kind = "ok" THEN Returned(0, CoinDesk)
    ELSE IF resp.kind = "OtherRequestException" THEN Outcome("escape")
    ELSE Outcome("next")

PrimaryAttempt(resp) ==
    IF resp.kind \in {"ConnectionError", "Timeout", "HTTPError"} THEN Outcome("next")
    ELSE IF resp.kind = "OtherRequestException" THEN Outcome("escape")
    ELSE CASE resp.body.shape = "missing" -> Outcome("next")      \* KeyError
           [] resp.body.shape = "number" -> Outcome("escape")    \* AttributeError
           [] resp.body.shape = "text" ->
                IF FloatParses(StripRate(resp.body.rate))
                THEN Returned(FloatOf(StripRate(resp.body.rate)), CoinDesk)
                ELSE Outcome("next")                              \* ValueError

BackupAttemptMislabel(resp) ==
    IF resp.kind = "ok" /\ resp.body.shape = "number"
    THEN Returned(resp.body.num, CoinDesk)
    ELSE Outcome("APIError")

BackupAttempt(resp) ==
    IF resp.kind \in RequestErrors THEN Outcome("APIError")
    ELSE CASE resp.body.shape = "missing" -> Outcome("APIError")  \* KeyError
           [] resp.body.shape = "number" -> Returned(resp.body.num, CoinGecko)
           [] resp.body.shape = "text" ->
                IF FloatParses(resp.body.rate)
                THEN Returned(FloatOf(resp.body.rate), CoinGecko)
                ELSE Outcome("APIError")                          \* ValueError

\* ------------------------------------------------------------ the table
\* A row of bitcoin_prices.  The table is the sequence of its rows in
\* insertion order.
Row(i, t, p, src) == [id |-> i, timestamp |-> t, price |-> p, api_source |-> src]

\* INSERT INTO bitcoin_prices (price, api_source): id is the AUTOINCREMENT
\* key, timestamp the CURRENT_TIMESTAMP default.
InsertOverwrite(s, t, data) == <<Row(1, t, data.price, data.source)>>

Insert(s, t, data) == Append(s, Row(Len(s) + 1, t, data.price, data.source))

\* A failed INSERT or commit: the connection is closed without a commit.
RolledBackKeepsRow(s, t, data) == Append(s, Row(Len(s) + 1, t, data.price, data.source))

RolledBack(s, t, data) == s

\* ----------------------------------------------------------- aggregates
RECURSIVE SumPrice(_)
SumPrice(s) == IF s = <<>> THEN 0 ELSE s[1].price + SumPrice(Tail(s))

MinPrice(s) == CHOOSE p \in {s[i].price : i \in 1..Len(s)} :
                   \A i \in 1..Len(s) : p <= s[i].price

MaxPrice(s) == CHOOSE p \in {s[i].price : i \in 1..Len(s)} :
                   \A i \in 1..Len(s) : p >= s[i].price

MaxTimestamp(s) == CHOOSE t \in {s[i].timestamp : i \in 1..Len(s)} :
                       \A i \in 1..Len(s) : t >= s[i].timestamp

\* SELECT COUNT(*), AVG(price), MIN(price), MAX(price), MAX(timestamp).
\* AVG is kept as the exact quotient avgNum / avgDen.
NoRow == [count |-> 0, avgNum |-> 0, avgDen |-> 1, min_price |-> 0,
          max_price |-> 0, last_updated |-> -1]

AggregateRow(s) ==
    IF s = <<>> THEN NoRow
    ELSE [count |-> Len(s), avgNum |-> SumPrice(s), avgDen |-> Len(s),
          min_price |-> MinPrice(s), max_price |-> MaxPrice(s),
          last_updated |-> MaxTimestamp(s)]

\* Row a comes before row b in ORDER BY timestamp DESC: the scan of
\* idx_timestamp backwards, whose entries are ordered by (timestamp, rowid).
NewerLowestId(a, b) ==
    \/ a.timestamp > b.timestamp
    \/ a.timestamp = b.timestamp /\ a.id < b.id

Newer(a, b) ==
    \/ a.timestamp > b.timestamp
    \/ a.timestamp = b.timestamp /\ a.id > b.id

\* SELECT price ... ORDER BY timestamp DESC LIMIT 1 (the table is not empty).
LatestRow(s) == CHOOSE r \in {s[i] : i \in 1..Len(s)} :
                    \A i \in 1..Len(s) : s[i] = r \/ Newer(r, s[i])

\* ------------------------------------------------------- recommendation
\* n / d rounded to the nearest integer, halves to even (d > 0).
RoundDiv(n, d) ==
    LET q == (2 * n + d) \div (2 * d)
    IN  IF (2 * n + d) % (2 * d) = 0 /\ q % 2 = 1 THEN q - 1 ELSE q

\* ((latest - average) / average) * 100 formatted with one decimal, in tenths
\* of a percent; the average is num / den and is not 0.
DiffPctTenths(latest, num, den) ==
    IF num > 0 THEN RoundDiv(1000 * (latest * den - num), num)
    ELSE RoundDiv(1000 * (num - latest * den), 0 - num)

Rec(l, d) == [error |-> "none", label |-> l, diff |-> d]

\* The if / elif / else of get_statistics, on latest and average = num / den
\* (den > 0):  latest > average * 1.05,  latest < average * 0.95,  else HOLD.
RecommendationTwoPercent(latest, num, den) ==
    IF latest * den * 100 > num * 102 THEN Rec("SELL", 0)
    ELSE IF latest * den * 100 < num * 98 THEN Rec("BUY", 0)
    ELSE IF num = 0 THEN [error |-> "ZeroDivisionError", label |-> "none", diff |-> 0]
    ELSE Rec("HOLD", DiffPctTenths(latest, num, den))

RecommendationInverted(latest, num, den) ==
    IF latest * den * 100 < num * 95 THEN Rec("SELL", 0)
    ELSE IF latest * den * 100 > num * 105 THEN Rec("BUY", 0)
    ELSE IF num = 0 THEN [error |-> "ZeroDivisionError", label |-> "none", diff |-> 0]
    ELSE Rec("HOLD", DiffPctTenths(latest, num, den))

Recommendation(latest, num, den) ==
    IF latest * den * 100 > num * 105 THEN Rec("SELL", 0)
    ELSE IF latest * den * 100 < num * 95 THEN Rec("BUY", 0)
    ELSE IF num = 0 THEN [error |-> "ZeroDivisionError", label |-> "none", diff |-> 0]
    ELSE Rec("HOLD", DiffPctTenths(latest, num, den))

\* ------------------------------------------------------------ snapshots
Snapshot(row, latest, rec) ==
    [count |-> row.count, avgNum |-> row.avgNum, avgDen |-> row.avgDen,
     minimum |-> row.min_price, maximum |-> row.max_price, latest |-> latest,
     last_updated |-> row.last_updated, label |-> rec.label, diff |-> rec.diff]

\* The zero-valued dictionary of the tracker's else branch.
InsufficientData == Snapshot(NoRow, 0, Rec("HOLD - Insufficient data", 0))

\* The body /api/stats sends for DataNotFoundError.
NoDataAvailable == Snapshot(NoRow, 0, Rec("HOLD - No data available", 0))

NoStats == Snapshot(NoRow, 0, Rec("none", 0))

\* BitcoinTracker.get_statistics on table s, both queries answered: the
\* dictionary it returns, or the exception that leaves it.
TrackerGetStatisticsOldest(s) ==
    LET row == AggregateRow(s)
    IN  IF row.count > 0
        THEN LET latest == s[1].price
                 rec == Recommendation(latest, row.avgNum, row.avgDen)
             IN  [error |-> rec.error, stats |-> Snapshot(row, latest, rec)]
        ELSE [error |-> "none", stats |-> InsufficientData]

TrackerGetStatisticsNoGuard(s) ==
    LET row == AggregateRow(s)
    IN  IF row.count > 0
        THEN LET latest == LatestRow(s).price
                 rec == Recommendation(latest, row.avgNum, row.avgDen)
             IN  [error |-> rec.error, stats |-> Snapshot(row, latest, rec)]
        ELSE LET rec == Recommendation(0, 0, 1)
             IN  [error |-> rec.error, stats |-> Snapshot(row, 0, rec)]

TrackerGetStatistics(s) ==
    LET row == AggregateRow(s)
    IN  IF row.count > 0
        THEN LET latest == LatestRow(s).price
                 rec == Recommendation(latest, row.avgNum, row.avgDen)
             IN  [error |-> rec.error, stats |-> Snapshot(row, latest, rec)]
        ELSE [error |-> "none", stats |-> InsufficientData]

\* ============================================================== the state
VARIABLES
    running,      \* self.running
    pc,           \* where run() is
    iteration,    \* run()'s iteration counter
    pendingInc,   \* the path taken does iteration += 1 after the sleep
    price_data,   \* run()'s local: the last dictionary fetch returned
    store,        \* the rows of bitcoin_prices
    now,          \* the wall clock, in hours
    report,       \* what this tick displayed (display_statistics)
    attempts,     \* history: the sources this tick's fetch contacted
    fetchResult,  \* history: how this tick's fetch ended
    storeResult,  \* history: how this tick's store_price ended
    tickStore,    \* history: the table when this tick started
    written,      \* history: for each row run() inserted, the ticks of its fetch and insert
    stopAt,       \* history: whether the signal arrived during a fetch or write
    dpc,          \* where the dashboard's request is
    drow,         \* the aggregate row a running get_statistics holds
    dresp,        \* the dashboard's last response
    dreq          \* history: the request that response answers

pollerVars == <<running, pc, iteration, pendingInc, price_data, now, report,
                attempts, fetchResult, storeResult, tickStore, written, stopAt>>
dashVars == <<dpc, drow, dresp, dreq>>
vars == <<running, pc, iteration, pendingInc, price_data, store, now, report,
          attempts, fetchResult, storeResult, tickStore, written, stopAt, dpc,
          drow, dresp, dreq>>

NoReport == [shown |-> FALSE, stats |-> NoStats]
\* get_statistics ended with exception e instead of a dictionary.
ErrorReport(e) == [shown |-> FALSE, stats |-> Snapshot(NoRow, 0, Rec(e, 0))]
NoResponse == [status |-> 0, kind |-> "none", stats |-> NoStats, rows |-> <<>>]

\* A request: its endpoint, the hours of /api/history/<hours>, and whether
\* the database answered its last query.
Request(k, h, db) == [kind |-> k, hours |-> h, db |-> db]
NoRequest == Request("none", 0, "ok")

\* The positions of a tick between the loop test and the wait step.
TickPcs == {"primary", "backup", "store", "stats"}
WaitPcs == {"sleep", "sleeping"}

\* ------------------------------------------------- run(): the handlers
\* Where run() goes when fetch_bitcoin_price ends with outcome k:
\* a dictionary (line 257), APIError (line 251) or anything else (line 282).
\* The dictionary is never empty, so the 'continue' of line 250 is not taken.
AfterFetchNoHandler(k) ==
    IF k = "return" THEN "store" ELSE IF k = "APIError" THEN "sleep" ELSE "stopped"

AfterFetchFallThrough(k) ==
    IF k = "return" THEN "store" ELSE IF k = "APIError" THEN "store" ELSE "sleep"

AfterFetchSkipsStore(k) == IF k = "return" THEN "stats" ELSE "sleep"

AfterFetch(k) == IF k = "return" THEN "store" ELSE "sleep"

\* Where run() goes when store_price ends: normally (line 267) or with
\* DatabaseError (line 260).
AfterStore(k) == IF k = "ok" THEN "stats" ELSE "sleep"

\* ------------------------------------------------------------ the poller
\* while self.running: the test succeeds and a tick starts.
StartTick ==
    /\ pc = "loop"
    /\ running
    /\ iteration <= MaxIter
    /\ pc' = "primary"
    /\ attempts' = <<>>
    /\ fetchResult' = "none"
    /\ storeResult' = "none"
    /\ report' = NoReport
    /\ tickStore' = store
    /\ UNCHANGED <<running, iteration, pendingInc, price_data, store, now, written>>
    /\ UNCHANGED <<stopAt, dashVars>>

ExitLoopSpins ==
    /\ pc = "loop"
    /\ ~running
    /\ pc' = "loop"
    /\ UNCHANGED <<running, iteration, pendingInc, price_data, store, now, report,
                   attempts, fetchResult, storeResult, tickStore, written>>
    /\ UNCHANGED <<stopAt, dashVars>>

\* while self.running: the test fails and run() ends.
ExitLoop ==
    /\ pc = "loop"
    /\ ~running
    /\ pc' = "stopped"
    /\ UNCHANGED <<running, iteration, pendingInc, price_data, store, now, report,
                   attempts, fetchResult, storeResult, tickStore, written>>
    /\ UNCHANGED <<stopAt, dashVars>>

\* fetch_bitcoin_price, first try block (lines 97-122).
FetchPrimary ==
    /\ pc = "primary"
    /\ \E resp \in PrimaryResponses :
         LET out == PrimaryAttempt(resp)
         IN  /\ attempts' = Append(attempts, [source |-> CoinDesk, resp |-> resp])
             /\ IF out.kind = "next"
                THEN /\ pc' = "backup"
                     /\ UNCHANGED <<price_data, fetchResult, pendingInc>>
                ELSE /\ pc' = AfterFetch(out.kind)
                     /\ fetchResult' = out.kind
                     /\ pendingInc' = (out.kind # "return")
                     /\ price_data' =
                          IF out.kind = "return"
                          THEN [price |-> out.price, source |-> out.source, tick |-> iteration]
                          ELSE price_data
    /\ UNCHANGED <<running, iteration, store, now, report, storeResult, tickStore, written>>
    /\ UNCHANGED <<stopAt, dashVars>>

\* fetch_bitcoin_price, second try block (lines 125-148).
FetchBackup ==
    /\ pc = "backup"
    /\ \E resp \in BackupResponses :
         LET out == BackupAttempt(resp)
         IN  /\ attempts' = Append(attempts, [source |-> CoinGecko, resp |-> resp])
             /\ pc' = AfterFetch(out.kind)
             /\ fetchResult' = out.kind
             /\ pendingInc' = (out.kind # "return")
             /\ price_data' =
                  IF out.kind = "return"
                  THEN [price |-> out.price, source |-> out.source, tick |-> iteration]
                  ELSE price_data
    /\ UNCHANGED <<running, iteration, store, now, report, storeResult, tickStore, written>>
    /\ UNCHANGED <<stopAt, dashVars>>

\* store_price(price_data) (lines 150-161): the insert commits, or the
\* connection fails and DatabaseError is raised.
StorePrice ==
    /\ pc = "store"
    /\ \E k \in {"ok", "DatabaseError"} :
         /\ storeResult' = k
         /\ pc' = AfterStore(k)
         /\ pendingInc' = (k # "ok")
         /\ IF k = "ok"
            THEN /\ store' = Insert(store, now, price_data)
                 /\ written' = Append(written, [fetched |-> price_data.tick, at |-> iteration])
            ELSE /\ store' = RolledBack(store, now, price_data)
                 /\ UNCHANGED written
    /\ UNCHANGED <<running, iteration, price_data, now, report, attempts, fetchResult,
                   tickStore>>
    /\ UNCHANGED <<stopAt, dashVars>>

\* get_statistics and display_statistics (lines 267-274): the snapshot is
\* shown, or DatabaseError is logged, or another exception reaches line 282.
GetStatistics ==
    /\ pc = "stats"
    /\ \E k \in {"ok", "DatabaseError"} :
         LET res == TrackerGetStatistics(store)
         IN  IF k = "ok" /\ res.error = "none"
             THEN /\ report' = [shown |-> TRUE, stats |-> res.stats]
                  /\ iteration' = iteration + 1
                  /\ pendingInc' = FALSE
             ELSE IF k = "DatabaseError"
             THEN /\ iteration' = iteration + 1
                  /\ pendingInc' = FALSE
                  /\ UNCHANGED report
             ELSE /\ pendingInc' = TRUE
                  /\ UNCHANGED <<report, iteration>>
    /\ pc' = "sleep"
    /\ UNCHANGED <<running, price_data, store, now, attempts, fetchResult, storeResult,
                   tickStore, written>>
    /\ UNCHANGED <<stopAt, dashVars>>

\* time.sleep(fetch_interval) is called.
SleepBegin ==
    /\ pc = "sleep"
    /\ pc' = "sleeping"
    /\ UNCHANGED <<running, iteration, pendingInc, price_data, store, now, report,
                   attempts, fetchResult, storeResult, tickStore, written>>
    /\ UNCHANGED <<stopAt, dashVars>>

\* time.sleep returns, FetchInterval hours later.
SleepEnd ==
    /\ pc = "sleeping"
    /\ pc' = "loop"
    /\ now' = now + FetchInterval
    /\ iteration' = IF pendingInc THEN iteration + 1 ELSE iteration
    /\ pendingInc' = FALSE
    /\ UNCHANGED <<running, price_data, store, report, attempts, fetchResult, storeResult,
                   tickStore, written>>
    /\ UNCHANGED <<stopAt, dashVars>>

\* _signal_handler (lines 229-232): SIGINT or SIGTERM, at any point of run().
\* The handler replaces the default one, so SIGINT raises no KeyboardInterrupt
\* and the break of line 281 is not taken.
InFlightPcs == {"primary", "backup", "store"}

SignalAborts ==
    /\ pc # "stopped"
    /\ running
    /\ running' = FALSE
    /\ stopAt' = IF pc \in InFlightPcs THEN "in flight" ELSE "between"
    /\ pc' = "stopped"
    /\ UNCHANGED <<iteration, pendingInc, price_data, store, now, report, attempts,
                   fetchResult, storeResult, tickStore, written>>
    /\ UNCHANGED dashVars

Signal ==
    /\ pc # "stopped"
    /\ running
    /\ running' = FALSE
    /\ stopAt' = IF pc \in InFlightPcs THEN "in flight" ELSE "between"
    /\ UNCHANGED <<pc, iteration, pendingInc, price_data, store, now, report, attempts,
                   fetchResult, storeResult, tickStore, written>>
    /\ UNCHANGED dashVars

\* ========================================================= the dashboard
\* The text SQLite stores for CURRENT_TIMESTAMP, 'YYYY-MM-DD HH:MM:SS', and
\* the text of datetime.isoformat(), 'YYYY-MM-DDTHH:MM:SS.ffffff', for the
\* hour t: the date, the separator, the time of day.
StoredText(t) == [date |-> t \div 24, sep |-> " ", time |-> t % 24]
IsoText(t) == [date |-> t \div 24, sep |-> "T", time |-> t % 24]

\* The code point order of the two separators: ' ' sorts before 'T'.
SepRank(c) == IF c = " " THEN 0 ELSE 1

\* a >= b for two such texts, compared character by character.
TextGE(a, b) ==
    \/ a.date > b.date
    \/ a.date = b.date /\ SepRank(a.sep) > SepRank(b.sep)
    \/ a.date = b.date /\ a.sep = b.sep /\ a.time >= b.time

\* The rows of set S by ascending (timestamp, id): ORDER BY timestamp ASC.
RECURSIVE Ascending(_)
Ascending(S) ==
    IF S = {} THEN <<>>
    ELSE LET first == CHOOSE r \in S : \A q \in S : q = r \/ Newer(q, r)
         IN  <<first>> \o Ascending(S \ {first})

\* The rows of set S by descending (timestamp, id): ORDER BY timestamp DESC.
RECURSIVE Descending(_)
Descending(S) ==
    IF S = {} THEN <<>>
    ELSE LET first == CHOOSE r \in S : \A q \in S : q = r \/ Newer(r, q)
         IN  <<first>> \o Descending(S \ {first})

Rows(s) == {s[i] : i \in 1..Len(s)}

\* get_price_history(hours) at clock t (lines 109-129).
GetPriceHistory(s, t, hours) ==
    LET cutoff == IsoText(t - hours)
        rows == Ascending({r \in Rows(s) : TextGE(StoredText(r.timestamp), cutoff)})
    IN  [i \in 1..Len(rows) |-> [timestamp |-> rows[i].timestamp, price |-> rows[i].price]]

\* get_recent_data(limit) (lines 135-155).
GetRecentData(s, limit) ==
    LET rows == Descending(Rows(s))
    IN  [i \in 1..(IF Len(rows) < limit THEN Len(rows) ELSE limit) |->
            [timestamp |-> rows[i].timestamp, price |-> rows[i].price,
             api_source |-> rows[i].api_source]]

\* The default limit of get_recent_data.
RecentLimit == 10

\* The hours a client may ask /api/history for.
HoursInputs == {-1, 0, 1, 168, 169}

\* The route '/api/history/<int:hours>': the int converter matches digits
\* only, so a negative number matches no route.
RouteMatches(hours) == hours >= 0

Response(st, k, stats, rows) == [status |-> st, kind |-> k, stats |-> stats, rows |-> rows]
ServerError == Response(500, "error", NoStats, <<>>)
BadRequest == Response(400, "error", NoStats, <<>>)
\* The 404 error handler (lines 228-231).
NotFound == Response(404, "error", NoStats, <<>>)

\* GET /api/stats, first query of get_statistics (lines 57-70).
DashStatsAggregate ==
    /\ dpc = "idle"
    /\ \E k \in {"ok", "DatabaseError"} :
         /\ dreq' = Request("stats", 0, k)
         /\ IF k = "DatabaseError"
            THEN /\ dresp' = ServerError
                 /\ UNCHANGED <<dpc, drow>>
            ELSE LET row == AggregateRow(store)
                 IN  IF row.count = 0
                     THEN /\ dresp' = Response(200, "nodata", NoDataAvailable, <<>>)
                          /\ UNCHANGED <<dpc, drow>>
                     ELSE /\ drow' = row
                          /\ dpc' = "stats_latest"
                          /\ UNCHANGED dresp
    /\ UNCHANGED store
    /\ UNCHANGED pollerVars

\* GET /api/stats, second query of get_statistics and the answer (lines 72-100).
DashStatsLatest ==
    /\ dpc = "stats_latest"
    /\ \E k \in {"ok", "DatabaseError"} :
         /\ dreq' = Request("stats", 0, k)
         /\ IF k = "DatabaseError"
            THEN dresp' = ServerError
            ELSE IF store = <<>>
            THEN dresp' = Response(200, "nodata", NoDataAvailable, <<>>)
            ELSE LET latest == LatestRow(store).price
                     rec == Recommendation(latest, drow.avgNum, drow.avgDen)
                 IN  dresp' = IF rec.error = "none"
                              THEN Response(200, "stats", Snapshot(drow, latest, rec), <<>>)
                              ELSE ServerError
    /\ dpc' = "idle"
    /\ drow' = NoRow
    /\ UNCHANGED store
    /\ UNCHANGED pollerVars

\* GET /api/history/<hours> (lines 198-213).
DashHistory ==
    /\ dpc = "idle"
    /\ \E hours \in HoursInputs, k \in {"ok", "DatabaseError"} :
         /\ dreq' = Request("history", hours, k)
         /\ dresp' = IF ~RouteMatches(hours) THEN NotFound
                     ELSE IF hours <= 0 \/ hours > 168 THEN BadRequest
                     ELSE IF k = "DatabaseError" THEN ServerError
                     ELSE Response(200, "history", NoStats,
                                   GetPriceHistory(store, now, hours))
    /\ UNCHANGED <<dpc, drow>>
    /\ UNCHANGED store
    /\ UNCHANGED pollerVars

\* GET /api/recent (lines 215-226).
DashRecent ==
    /\ dpc = "idle"
    /\ \E k \in {"ok", "DatabaseError"} :
         /\ dreq' = Request("recent", 0, k)
         /\ dresp' = IF k = "DatabaseError" THEN ServerError
                     ELSE Response(200, "recent", NoStats,
                                   GetRecentData(store, RecentLimit))
    /\ UNCHANGED <<dpc, drow>>
    /\ UNCHANGED store
    /\ UNCHANGED pollerVars

\* ===================================================== the specification
\* The hour at which the process starts: late on day 7.
StartHour == 190

\* The table CREATE TABLE IF NOT EXISTS makes on a first start.
InitialStores == { <<>> }

Init ==
    /\ running = TRUE
    /\ pc = "loop"
    /\ iteration = 1
    /\ pendingInc = FALSE
    /\ price_data = NoData
    /\ store \in InitialStores
    /\ now = StartHour
    /\ report = NoReport
    /\ attempts = <<>>
    /\ fetchResult = "none"
    /\ storeResult = "none"
    /\ tickStore = store
    /\ written = <<>>
    /\ stopAt = "none"
    /\ dpc = "idle"
    /\ drow = NoRow
    /\ dresp = NoResponse
    /\ dreq = NoRequest

Next ==
    \/ StartTick
    \/ ExitLoop
    \/ FetchPrimary
    \/ FetchBackup
    \/ StorePrice
    \/ GetStatistics
    \/ SleepBegin
    \/ SleepEnd
    \/ Signal
    \/ DashStatsAggregate
    \/ DashStatsLatest
    \/ DashHistory
    \/ DashRecent

Spec == Init /\ [][Next]_vars

\* ------------------------------------------------ the tracker on its own
\* A step of run(): each call it makes returns (the requests have
\* timeout=10, the connection its own timeout, the sleep fetch_interval).
RunStep ==
    \/ StartTick
    \/ ExitLoop
    \/ FetchPrimary
    \/ FetchBackup
    \/ StorePrice
    \/ GetStatistics
    \/ SleepBegin
    \/ SleepEnd

NextTracker ==
    \/ RunStep
    \/ Signal

\* The tracker process alone; run() is not held up for ever.
SpecTracker == Init /\ [][NextTracker]_vars /\ WF_vars(RunStep)

\* ============================================ statistics on a found table
\* The prices of the rows of a table kept from earlier runs.
StatPrices == {90, 100, 105, 110}

\* The table with the given prices; its rows were written gap hours apart
\* (gap = 0: all within the same hour; gap = -1: the system clock that
\* CURRENT_TIMESTAMP reads was set back between the rows).
FoundStore(prices, gap) ==
    [i \in 1..Len(prices) |->
        Row(i,
            IF gap >= 0 THEN StartHour - (MaxRows + 1) * gap + i * gap
            ELSE StartHour + i * gap,
            prices[i],
            IF prices[i] = 105 THEN CoinGecko ELSE CoinDesk)]

Gaps == {-1, 0, 1}

StoresWith(P) ==
    UNION { { FoundStore(prices, gap) : prices \in [1..n -> P], gap \in Gaps } :
            n \in 0..MaxRows }

FoundStores == StoresWith(StatPrices)

\* A tracker object is constructed on a found table and run() is not called.
InitStats ==
    /\ running = TRUE
    /\ pc = "idle"
    /\ iteration = 1
    /\ pendingInc = FALSE
    /\ price_data = NoData
    /\ store \in FoundStores
    /\ now = StartHour
    /\ report = NoReport
    /\ attempts = <<>>
    /\ fetchResult = "none"
    /\ storeResult = "none"
    /\ tickStore = store
    /\ written = <<>>
    /\ stopAt = "none"
    /\ dpc = "idle"
    /\ drow = NoRow
    /\ dresp = NoResponse
    /\ dreq = NoRequest

\* tracker.get_statistics() called on its own (lines 163-213).
TrackerStatsCall ==
    /\ pc = "idle"
    /\ LET res == TrackerGetStatistics(store)
       IN  report' = IF res.error = "none" THEN [shown |-> TRUE, stats |-> res.stats]
                     ELSE ErrorReport(res.error)
    /\ UNCHANGED <<running, pc, iteration, pendingInc, price_data, store, now, attempts,
                   fetchResult, storeResult, tickStore, written>>
    /\ UNCHANGED <<stopAt, dashVars>>

NextStats ==
    \/ TrackerStatsCall
    \/ DashStatsAggregate
    \/ DashStatsLatest
    \/ DashRecent

SpecStats == InitStats /\ [][NextStats]_vars

\* --------------------------------------- a found table with any REAL price
\* Prices the column accepts and no check refuses: 0 and amounts below 0.
AnyPrices == {-5, 0, 5}

InitAnyPrices ==
    /\ running = TRUE
    /\ pc = "idle"
    /\ iteration = 1
    /\ pendingInc = FALSE
    /\ price_data = NoData
    /\ store \in StoresWith(AnyPrices)
    /\ now = StartHour
    /\ report = NoReport
    /\ attempts = <<>>
    /\ fetchResult = "none"
    /\ storeResult = "none"
    /\ tickStore = store
    /\ written = <<>>
    /\ stopAt = "none"
    /\ dpc = "idle"
    /\ drow = NoRow
    /\ dresp = NoResponse
    /\ dreq = NoRequest

SpecAnyPrices == InitAnyPrices /\ [][NextStats]_vars

\* ================================================================ claims
\* The tick is over: run() is at the wait step or at the loop test after it.
TickOver == pc \in {"sleep", "sleeping", "loop", "stopped"}

\* The source answered with a price the code can read.
QuotesPrimary(resp) ==
    resp.kind = "ok" /\ resp.body.shape = "text" /\ FloatParses(StripRate(resp.body.rate))
QuotedPrimary(resp) == FloatOf(StripRate(resp.body.rate))

QuotesBackup(resp) ==
    /\ resp.kind = "ok"
    /\ \/ resp.body.shape = "number"
       \/ resp.body.shape = "text" /\ FloatParses(resp.body.rate)
QuotedBackup(resp) ==
    IF resp.body.shape = "number" THEN resp.body.num ELSE FloatOf(resp.body.rate)

\* The primary attempt failed and the backup attempt succeeded.
BackupCase ==
    /\ Len(attempts) = 2
    /\ ~QuotesPrimary(attempts[1].resp)
    /\ QuotesBackup(attempts[2].resp)

\* The table is the tick's starting table plus one row holding data d.
OneNewRow(d) ==
    /\ Len(store) = Len(tickStore) + 1
    /\ SubSeq(store, 1, Len(tickStore)) = tickStore
    /\ store[Len(store)].price = d.price
    /\ store[Len(store)].api_source = d.source

BackupData == [price |-> QuotedBackup(attempts[2].resp), source |-> CoinGecko]

\* C1 (as stated): when the primary attempt fails and the backup succeeds, the
\* fetch returns the backup's price and identifier, and after the tick the
\* table holds exactly one new row, the backup's.
C1_ExactlyOneRow ==
    BackupCase =>
        /\ price_data.price = BackupData.price
        /\ price_data.source = CoinGecko
        /\ TickOver => OneNewRow(BackupData)

\* C1 (amended): when the primary attempt fails and the backup succeeds, the
\* fetch returns the backup's price and identifier; after the tick the table
\* holds exactly one new row, the backup's, if store_price succeeded, and no
\* new row if store_price raised DatabaseError; no row for the primary.
C1_FallbackStored ==
    BackupCase =>
        /\ price_data.price = BackupData.price
        /\ price_data.source = CoinGecko
        /\ storeResult = "ok" => OneNewRow(BackupData)
        /\ storeResult # "ok" => store = tickStore
        /\ TickOver => storeResult \in {"ok", "DatabaseError"}

C1_Witness ==
    /\ BackupCase
    /\ pc = "sleep"
    /\ storeResult = "ok"
    /\ store[Len(store)].api_source = CoinGecko
    /\ attempts[1].resp.kind = "Timeout"

\* The primary attempt ended in one of the failures the call catches.
PrimaryCaughtFailure(resp) ==
    \/ resp.kind \in {"ConnectionError", "Timeout", "HTTPError"}
    \/ resp.kind = "ok" /\ resp.body.shape = "missing"
    \/ resp.kind = "ok" /\ resp.body.shape = "text"
          /\ ~FloatParses(StripRate(resp.body.rate))

\* C2: one fetch contacts the primary, then the backup, each at most once;
\* the backup only after the primary failed by connection failure, timeout,
\* status code or parse error; APIError only after both were tried and both
\* failed; a returned price is the one the last contacted source quoted.
C2_OrderedAttempts ==
    /\ Len(attempts) <= 2
    /\ \A i \in 1..Len(attempts) : attempts[i].source = <<CoinDesk, CoinGecko>>[i]
    /\ pc = "backup" => Len(attempts) = 1
    /\ Len(attempts) = 2 => PrimaryCaughtFailure(attempts[1].resp)
    /\ fetchResult = "APIError" =>
          /\ Len(attempts) = 2
          /\ ~QuotesPrimary(attempts[1].resp)
          /\ ~QuotesBackup(attempts[2].resp)
    /\ fetchResult = "return" =>
          /\ Len(attempts) >= 1
          /\ price_data.source = attempts[Len(attempts)].source
          /\ Len(attempts) = 1 =>
                /\ QuotesPrimary(attempts[1].resp)
                /\ price_data.price = QuotedPrimary(attempts[1].resp)
          /\ Len(attempts) = 2 =>
                /\ QuotesBackup(attempts[2].resp)
                /\ price_data.price = QuotedBackup(attempts[2].resp)

C2_Witness ==
    /\ fetchResult = "APIError"
    /\ Len(attempts) = 2
    /\ attempts[1].resp.kind = "ok"
    /\ attempts[2].resp.kind = "OtherRequestException"

\* C3: whenever the primary attempt yields no price the backup is attempted,
\* and a fetch ends with a dictionary or with APIError, nothing else.
C3_FallbackOnAnyFailure ==
    /\ fetchResult \in {"none", "return", "APIError"}
    /\ (Len(attempts) >= 1 /\ ~QuotesPrimary(attempts[1].resp) /\ pc # "backup")
          => Len(attempts) = 2

\* C4: no sleep of the interval begins after the stop flag was set.
C4_NoSleepAfterStop == [][(pc = "sleep" /\ pc' = "sleeping") => running]_vars

\* C5: whatever fails in a tick, run() goes to the wait step, sleeps once and
\* comes back to the loop test, where it starts the next tick; it ends only
\* at the loop test with the stop flag set.
C5_LoopSurvives ==
    [][/\ (pc' = "stopped" /\ pc' # pc) => (pc = "loop" /\ ~running)
       /\ (pc \in TickPcs /\ pc' # pc) => pc' \in TickPcs \cup {"sleep"}
       /\ (pc = "sleep" /\ pc' # pc) => pc' = "sleeping"
       /\ (pc = "sleeping" /\ pc' # pc) => pc' = "loop"
       /\ (pc = "loop" /\ pc' # pc /\ running) => pc' = "primary"
      ]_vars

C5_Witness ==
    /\ pc = "primary"
    /\ iteration = 2
    /\ store = <<>>

\* C6: a tick whose fetch ended in APIError appends nothing, computes and
\* shows no statistics, and is at the wait step.
C6_ApiErrorSkipsTick ==
    fetchResult = "APIError" =>
        /\ store = tickStore
        /\ storeResult = "none"
        /\ ~report.shown
        /\ TickOver

C6_Witness == fetchResult = "APIError" /\ pc = "sleep" /\ Len(attempts) = 2

\* C7: a tick whose store_price raised DatabaseError shows no statistics,
\* leaves the table as it was and is at the wait step; every row run() wrote
\* was inserted in the tick that fetched it, so a dropped price is never
\* inserted later.
C7_StoreErrorDropsPrice ==
    /\ storeResult = "DatabaseError" =>
          /\ store = tickStore
          /\ ~report.shown
          /\ TickOver
    /\ Len(written) = Len(store)
    /\ \A i \in 1..Len(written) : written[i].fetched = written[i].at

C7_Witness ==
    /\ storeResult = "DatabaseError"
    /\ pc = "sleep"
    /\ price_data.tick = 2
    /\ Len(store) = 1

\* C8: every stored observation has a price greater than 0.
C8_PricesPositive == \A i \in 1..Len(store) : store[i].price > 0

\* C9: the table only grows, by one row at a time, appended by store_price
\* once in a tick whose fetch returned data; rows already stored stay as they
\* are; a dashboard step leaves the table as it is.
C9_AppendOnly ==
    [][/\ \/ store' = store
          \/ /\ pc = "store"
             /\ fetchResult = "return"
             /\ store = tickStore
             /\ Len(store') = Len(store) + 1
             /\ SubSeq(store', 1, Len(store)) = store
       /\ (dpc' # dpc \/ drow' # drow \/ dresp' # dresp) => store' = store
      ]_vars

C9_Witness ==
    /\ Len(store) = 2
    /\ dresp.kind = "recent"
    /\ Len(dresp.rows) = 1

\* --------------------------------------------- the recommendation table
\* diff_pct <= k and diff_pct >= k for the average num / den, not 0.
PctLE(latest, num, den, k) ==
    IF num > 0 THEN (latest * den - num) * 100 <= k * num
    ELSE (latest * den - num) * 100 >= k * num

PctGE(latest, num, den, k) ==
    IF num > 0 THEN (latest * den - num) * 100 >= k * num
    ELSE (latest * den - num) * 100 <= k * num

\* range_pos <= 0.3 and range_pos >= 0.7; range_pos is 0.5 when max = min.
RangeLow(latest, lo, hi) == hi > lo /\ (latest - lo) * 10 <= 3 * (hi - lo)
RangeHigh(latest, lo, hi) == hi > lo /\ (latest - lo) * 10 >= 7 * (hi - lo)

\* The five-label table with the 5 % / 2 % thresholds and range_pos.
FiveLabelTable(st) ==
    IF PctLE(st.latest, st.avgNum, st.avgDen, -5) /\ RangeLow(st.latest, st.minimum, st.maximum)
    THEN "STRONG BUY"
    ELSE IF PctLE(st.latest, st.avgNum, st.avgDen, -2) THEN "BUY"
    ELSE IF PctGE(st.latest, st.avgNum, st.avgDen, 5) /\ RangeHigh(st.latest, st.minimum, st.maximum)
    THEN "STRONG SELL"
    ELSE IF PctGE(st.latest, st.avgNum, st.avgDen, 2) THEN "SELL"
    ELSE "HOLD"

\* The three-label table: SELL above average * 1.05, BUY below average * 0.95.
ThreeLabelTable(st) ==
    IF st.latest * st.avgDen * 100 > st.avgNum * 105 THEN "SELL"
    ELSE IF st.latest * st.avgDen * 100 < st.avgNum * 95 THEN "BUY"
    ELSE "HOLD"

\* The snapshots at hand: the tracker's and the dashboard's.
ShownStats ==
    (IF report.shown /\ report.stats.count > 0 THEN {report.stats} ELSE {})
        \cup (IF dresp.kind = "stats" THEN {dresp.stats} ELSE {})

Prices(s) == [i \in 1..Len(s) |-> s[i].price]

Side(label) == IF label = "SELL" THEN 1 ELSE IF label = "BUY" THEN 0 - 1 ELSE 0

\* Latest values the recommendation is computed again for, around StatPrices.
ProbeLatest == { p + d : p \in StatPrices, d \in (0 - 12)..12 }

\* C11: with the average fixed and above 0, a higher latest never gets a
\* label on a lower side (BUY < HOLD < SELL) and a lower latest never one on
\* a higher side, so BUY is not followed by SELL without HOLD in between;
\* no latest is both above average * 1.05 and below average * 0.95.
C11_Monotone ==
    \A st \in ShownStats :
        st.avgNum > 0 =>
            /\ ~ (/\ st.latest * st.avgDen * 100 > st.avgNum * 105
                  /\ st.latest * st.avgDen * 100 < st.avgNum * 95)
            /\ \A b \in ProbeLatest :
                 LET rb == Recommendation(b, st.avgNum, st.avgDen)
                 IN  /\ rb.error = "none"
                     /\ b > st.latest => Side(rb.label) >= Side(st.label)
                     /\ b < st.latest => Side(rb.label) <= Side(st.label)
                     /\ (b > st.latest /\ st.label = "BUY" /\ rb.label = "SELL")
                            => \E h \in (st.latest + 1)..(b - 1) :
                                   Recommendation(h, st.avgNum, st.avgDen).label = "HOLD"

\* A BUY snapshot whose average gives HOLD and SELL to higher latest values.
C11_Witness ==
    /\ report.shown
    /\ report.stats.label = "BUY"
    /\ report.stats.avgNum > 0
    /\ \E b, c \in ProbeLatest :
        /\ report.stats.latest < b
        /\ b < c
        /\ Recommendation(b, report.stats.avgNum, report.stats.avgDen).label = "HOLD"
        /\ Recommendation(c, report.stats.avgNum, report.stats.avgDen).label = "SELL"

MaxTimestampHighestId(r, s) ==
    /\ r \in Rows(s)
    /\ \A q \in Rows(s) : q.timestamp <= r.timestamp
    /\ \A q \in Rows(s) : q.timestamp = r.timestamp => q.id <= r.id

C13_TiedRows ==
    \E i, j \in 1..Len(store) :
        /\ i < j
        /\ store[i].timestamp = store[j].timestamp
        /\ store[i].price # store[j].price
        /\ MaxTimestampHighestId(store[j], store)

WrittenSince(s, t) ==
    { [timestamp |-> r.timestamp, price |-> r.price] : r \in {q \in Rows(s) : q.timestamp >= t} }

\* C14 (as stated): a history request answered with 200 lists exactly the
\* rows whose timestamp, as a point in time, is at or after the cutoff
\* now - hours, in ascending timestamp order; a row just appended is in it.
C14_TimeWindow ==
    [][ (DashHistory /\ dresp'.status = 200)
            => /\ {dresp'.rows[i] : i \in 1..Len(dresp'.rows)}
                      = WrittenSince(store, now - dreq'.hours)
               /\ \A i, j \in 1..Len(dresp'.rows) :
                      i < j => dresp'.rows[i].timestamp <= dresp'.rows[j].timestamp ]_vars

\* ------------------------------------------------------------------ C15
\* C15: a signal only sets running to False: run() stays where it is and
\* the table, the fetched price and the tick's results stay as they are; a
\* fetch or write in flight then ends as it would with running True (the
\* fetch by its responses, the write by the database: a committed insert
\* appends the fetched price, a failed one leaves the table), and the
\* statistics step follows a committed insert; once the loop test has seen
\* the flag run() is over: no tick starts and the table stays as it is.
C15_CooperativeStop ==
    [][/\ running' # running
            => /\ running /\ ~running'
               /\ UNCHANGED <<pc, store, price_data, attempts, fetchResult, storeResult,
                              iteration, pendingInc, report, now>>
       /\ (pc \in InFlightPcs /\ pc' # pc)
            => /\ running' = running
               /\ pc' \in {"backup", "store", "stats", "sleep"}
               /\ pc \in {"primary", "backup"}
                    => /\ store' = store
                       /\ Len(attempts') = Len(attempts) + 1
                       /\ LET a == attempts'[Len(attempts')]
                              out == IF a.source = CoinDesk THEN PrimaryAttempt(a.resp)
                                     ELSE BackupAttempt(a.resp)
                          IN  /\ a.source = (IF pc = "primary" THEN CoinDesk ELSE CoinGecko)
                              /\ out.kind = "return"
                                   => /\ pc' = "store"
                                      /\ price_data'.price = out.price
                                      /\ price_data'.source = out.source
               /\ pc = "store"
                    => /\ storeResult' \in {"ok", "DatabaseError"}
                       /\ storeResult' = "ok"
                            => (pc' = "stats" /\ store' = Insert(store, now, price_data))
                       /\ storeResult' = "DatabaseError"
                            => (pc' = "sleep" /\ store' = store)
       /\ (pc = "loop" /\ ~running) => (pc' \in {"loop", "stopped"} /\ store' = store)
       /\ pc = "stopped" => (pc' = "stopped" /\ store' = store)
      ]_vars

\* The signal arrived during the fetch or the write of the first tick, the
\* row was appended all the same, and run() is over with that one row.
C15_Witness ==
    /\ stopAt = "in flight"
    /\ pc = "stopped"
    /\ written = << [fetched |-> 1, at |-> 1] >>
    /\ Len(store) = 1

\* ------------------------------------------------------------------ C16
\* C16 (as stated): GET /api/history/{hours} is answered with 400 for every
\* integer hours outside 1..168, whatever the state of the database, and,
\* the database answering, with 200 and a list for every hours in 1..168.
C16_HistoryValidation ==
    dreq.kind = "history" =>
        /\ (dreq.hours < 1 \/ dreq.hours > 168) => dresp.status = 400
        /\ (dreq.hours \in 1..168 /\ dreq.db = "ok")
               => (dresp.status = 200 /\ dresp.kind = "history")

\* ------------------------------------------------------------------ C17
\* C17 (as stated): on a table that is not empty and whose prices average 0,
\* get_statistics raises nothing and the recommendation is the
\* insufficient-data one, in the tracker and in the answer to /api/stats.
C17_ZeroAverage ==
    (store # <<>> /\ SumPrice(store) = 0) =>
        /\ report.shown => report.stats.label = InsufficientData.label
        /\ ~ report.shown => report = NoReport
        /\ (dpc = "idle" /\ dreq = Request("stats", 0, "ok"))
               => /\ dresp.status = 200
                  /\ dresp.stats.label \in {InsufficientData.label, NoDataAvailable.label}

\* ------------------------------------------------------------------ C18
\* C18: in a tick the write starts only after the fetch returned a price,
\* the statistics only after the insert committed, and the snapshot is
\* displayed only after both; while fetching the table is as the tick found
\* it; the displayed snapshot counts every row inserted so far, the one of
\* this tick included, and its latest price is the price this tick fetched
\* and inserted.
C18_TickOrdering ==
    /\ pc \in {"primary", "backup"}
          => (fetchResult = "none" /\ storeResult = "none" /\ store = tickStore
              /\ ~ report.shown)
    /\ pc = "store"
          => (fetchResult = "return" /\ storeResult = "none" /\ store = tickStore
              /\ ~ report.shown)
    /\ pc = "stats"
          => (fetchResult = "return" /\ storeResult = "ok" /\ ~ report.shown
              /\ Len(store) = Len(tickStore) + 1)
    /\ report.shown
          => /\ fetchResult = "return"
             /\ storeResult = "ok"
             /\ pc \in {"sleep", "sleeping", "loop", "stopped"}
             /\ report.stats.count = Len(written)
             /\ report.stats.count = Len(tickStore) + 1
             /\ report.stats.latest = price_data.price
             /\ store[Len(store)].price = price_data.price
             /\ written[Len(written)].at = price_data.tick

\* The second tick has stored its price and shown a snapshot of two rows.
C18_Witness ==
    /\ report.shown
    /\ report.stats.count = 2
    /\ Len(store) = 2
    /\ pc = "sleep"
    /\ report.stats.latest = store[2].price
    /\ store[1].price # store[2].price

\* ------------------------------------------------------------------ C19
\* C19: every call of run() returning in its time, once a signal has set
\* running to False run() reaches its end, however the tick in progress
\* ends.
C19_Termination == (~ running) ~> (pc = "stopped")

\* run() is over after a signal that arrived during a tick whose fetch
\* failed on both sources.
C19_Witness ==
    /\ pc = "stopped"
    /\ ~ running
    /\ stopAt = "in flight"
    /\ fetchResult = "APIError"

\* ------------------------------------------------------------------ C20
\* C20 (as stated): in every snapshot of one or more rows that the tracker
\* displays or /api/stats sends, minimum <= latest <= maximum and
\* minimum <= average <= maximum, a row inserted between the two queries of
\* get_statistics notwithstanding.
C20_SnapshotConsistent ==
    \A st \in ShownStats :
        st.count > 0 =>
            /\ st.minimum <= st.latest
            /\ st.latest <= st.maximum
            /\ st.minimum * st.avgDen <= st.avgNum
            /\ st.avgNum <= st.maximum * st.avgDen

\* ------------------------------------------------------------------ C21
\* The class of a recommendation text: the two no-data texts are HOLD.
RecClass(label) ==
    IF label \in {"HOLD", InsufficientData.label, NoDataAvailable.label} THEN "HOLD"
    ELSE label

\* Both get_statistics have been evaluated on the table, the database
\* answering every query of /api/stats.
BothEvaluated ==
    /\ report # NoReport
    /\ dpc = "idle"
    /\ dreq = Request("stats", 0, "ok")

\* C21: on the same table the tracker's get_statistics and the dashboard's,
\* as /api/stats renders it, give the same count, average, minimum, maximum
\* and latest price and a recommendation of the same class; on an empty
\* table both give the zero-valued HOLD snapshot; where one ends with an
\* exception of the recommendation arithmetic so does the other.
C21_TrackerDashboardAgree ==
    BothEvaluated =>
        IF report.shown
        THEN /\ dresp.status = 200
             /\ dresp.kind = (IF store = <<>> THEN "nodata" ELSE "stats")
             /\ dresp.stats.count = report.stats.count
             /\ dresp.stats.avgNum * report.stats.avgDen
                    = report.stats.avgNum * dresp.stats.avgDen
             /\ dresp.stats.minimum = report.stats.minimum
             /\ dresp.stats.maximum = report.stats.maximum
             /\ dresp.stats.latest = report.stats.latest
             /\ RecClass(dresp.stats.label) = RecClass(report.stats.label)
             /\ RecClass(report.stats.label) \in {"SELL", "BUY", "HOLD"}
             /\ store = <<>> => (report.stats.count = 0 /\ report.stats.latest = 0)
        ELSE /\ report = ErrorReport("ZeroDivisionError")
             /\ dresp = ServerError

\* Both evaluated on a table of several rows whose prices differ, and both
\* say BUY.
C21_Witness ==
    /\ BothEvaluated
    /\ Len(store) > 1
    /\ store[1].price # store[Len(store)].price
    /\ report.shown
    /\ report.stats.label = "BUY"
    /\ dresp.kind = "stats"
    /\ dresp.stats.label = "BUY"
====
